---------------------------- MODULE Spec2Model ----------------------------
(***************************************************************************)
(* Model of js_elma_planck_v1 (src/unnamed/part_001, lines 1-429: the      *)
(* physics demo with the options menu and the dynamic tiled background).   *)
(*                                                                         *)
(* Representation of numbers (the program computes in IEEE doubles):       *)
(*   pixel lengths      in half pixels            (22.5 px  = 45)          *)
(*   simulation lengths in 1/300 m                (1 px / SCALE = 5)       *)
(*   velocities         in 1/10000 m/s            (15 m/s = 150000)        *)
(*   measured text width in quarter pixels                                 *)
(* All arithmetic on these is exact integer arithmetic; the only rounding  *)
(* is a floor where the quotient is not representable.  TLC's integers are *)
(* 32 bit, so squares of velocities are kept as two-limb numbers.          *)
(***************************************************************************)
EXTENDS Integers, Sequences, FiniteSets, TLC

VARIABLES
    pc,               \* position of the top-level script: "main", "bg", "run"
    config,           \* part_001:35   { style, graphics }
    menuHidden,       \* menu.classList.contains('hidden')
    balls,            \* part_001:61   the ball registry (with each body's state)
    world,            \* bodies alive in the planck world
    wallBodies,       \* part_001:62
    rafPending,       \* animation-frame requests not yet fired or cancelled
    canvasScene,      \* what loop() drew on the simulation canvas last
    ctx,              \* part_001:33   the 2d context: compositing mode, save stack
    drawLog,          \* the compositing mode of clearRect and of each base circle
                      \* in the last loop()
    stepped,          \* the bodies as world.step (or createBall) last left them
    ejected,          \* per ball: the corner the last loop() detected, or "none"
    fresh,            \* no world.step since the last initGame()
    currentText,      \* part_001:295
    TILE_W,           \* part_001:298
    ROW_OFFSET,       \* part_001:299
    tile,             \* part_001:304  the off-screen tile canvas
    animateNoise,     \* part_001:301
    animationFrameId, \* part_001:302  (0 models null)
    cachedStaticImg,  \* part_001:389
    loads,            \* images whose load event has not fired yet
    bgCanvas,         \* the last tiling pass drawn on the background canvas
    frameRegens,      \* renderTile() calls made by the last display frame
    font,             \* the font the browser resolved FONT_STR to
    geom              \* background canvas size and tile height

simVars == <<config, menuHidden, balls, world, wallBodies, canvasScene,
             ctx, drawLog, stepped, ejected, fresh>>
bgVars  == <<currentText, TILE_W, ROW_OFFSET, tile, animateNoise,
             animationFrameId, cachedStaticImg, loads, bgCanvas, frameRegens>>
envVars == <<font, geom>>
vars    == <<pc, simVars, rafPending, bgVars, envVars>>

-----------------------------------------------------------------------------
(* Arithmetic helpers *)

Max(a, b) == IF a >= b THEN a ELSE b
Abs(a) == IF a < 0 THEN -a ELSE a
\* Math.ceil / Math.floor of the quotient a / b, b > 0, a >= 0
CeilDiv(a, b) == (a + b - 1) \div b
FloorDiv(a, b) == a \div b

\* Two-limb naturals <<hi, lo>> = hi * 10^6 + lo, for squares of velocities.
Sq(x) ==
    LET a == x \div 1000
        b == x % 1000
        mid == 2 * a * b
        low == (mid % 1000) * 1000 + b * b
    IN  <<a * a + (mid \div 1000) + (low \div 1000000), low % 1000000>>
BigAdd(p, q) ==
    LET lo == p[2] + q[2]
    IN  <<p[1] + q[1] + (lo \div 1000000), lo % 1000000>>
BigLeq(p, q) == p[1] < q[1] \/ (p[1] = q[1] /\ p[2] <= q[2])
SqNorm(v) == BigAdd(Sq(Abs(v.x)), Sq(Abs(v.y)))

RECURSIVE SqrtSearch(_, _, _)
\* the largest n in lo..hi with n^2 <= big  (lo^2 <= big is given)
SqrtSearch(big, lo, hi) ==
    IF lo >= hi THEN lo
    ELSE LET m == (lo + hi + 1) \div 2
         IN  IF BigLeq(Sq(m), big) THEN SqrtSearch(big, m, hi)
             ELSE SqrtSearch(big, lo, m - 1)
\* Vec2.length(): sqrt(x*x + y*y), to the velocity resolution
VecLength(v) == SqrtSearch(SqNorm(v), Max(Abs(v.x), Abs(v.y)), Abs(v.x) + Abs(v.y))

-----------------------------------------------------------------------------
(* Part 1: physics simulation -- constants and unit conversion *)

Px(n) == n * 2                      \* n pixels, in half pixels
Mps(n) == n * 10000                 \* n m/s, in velocity units

SCALE == 30
WIDTH == 1920
HEIGHT == 1080
BASE_RADIUS_PX == 60
BALL_DENSITY == 1

\* const p2m = (px) => px / SCALE   (half pixels -> 1/300 m)
p2m(px) == (px * 150) \div SCALE
\* const m2p = (m) => m * SCALE     (1/300 m -> half pixels)
m2p(m) == (m * SCALE) \div 150

\* updateBounds()
boundsLeft == 0
boundsRight == p2m(Px(WIDTH))
boundsTop == 0
boundsBottom == p2m(Px(HEIGHT))

Vec2(a, b) == [x |-> a, y |-> b]

\* the bodies setupWalls() creates: top, bottom, left, right
WallIds == <<1, 2, 3, 4>>

\* world.createBody / createDynamicBody: a body that is not in the world yet
NewBody(w) == CHOOSE b \in 1..(Cardinality(w) + 1) :
                  b \notin w /\ \A c \in 1..(b - 1) : c \in w

-----------------------------------------------------------------------------
(* Math.random(): the angles drawn, as (cos, sin) in hundredths.  One seed  *)
(* stands for the hidden generator state; the k-th call of one initGame()   *)
(* returns the k-th element of the seed's stream.                           *)

Directions == << <<100, 0>>, <<-28, 96>>, <<-80, -60>>, <<60, -80>> >>
Seeds == 1..Len(Directions)
RandomAngle(seed, k) == Directions[((seed + k - 2) % Len(Directions)) + 1]
MathCos(a) == a[1]
MathSin(a) == a[2]

\* the spawn speed of the first demo variant
spawnSpeedFifteen == Mps(15)
\* const speed = 25  (createBall)
spawnSpeed == Mps(25)

\* createBall(xPx, yPx, radiusPx, color, shouldMove): st is the registry, the
\* world and the number of Math.random() calls made so far
createBall(st, xPx, yPx, radiusPx, color, shouldMove, seed) ==
    LET radiusM == p2m(radiusPx)
        body == NewBody(st.world)
        angle == RandomAngle(seed, st.draws + 1)
        vel == IF shouldMove
               THEN Vec2((MathCos(angle) * spawnSpeed) \div 100,
                         (MathSin(angle) * spawnSpeed) \div 100)
               ELSE Vec2(0, 0)
    IN  [balls |-> Append(st.balls,
                     [body |-> body, radius |-> radiusPx, color |-> color,
                      shouldMove |-> shouldMove,
                      fixtureRadius |-> radiusM, density |-> BALL_DENSITY,
                      pos |-> Vec2(p2m(xPx), p2m(yPx)),
                      vel |-> vel, angVel |-> 0]),
         world |-> st.world \cup {body},
         draws |-> IF shouldMove THEN st.draws + 1 ELSE st.draws]

\* the small ball of every row starts moving
leftMovesInEveryRow(style, r) == style = "old" \/ style = "new"
\* the small ball of the bottom row starts moving instead of the top row's
leftMovesInBottomRow(style, r) == style = "old" \/ (style = "new" /\ r = 2)
\* const leftShouldMove = isOldStyle || (config.style === 'new' && isTopRow)
leftShouldMove(style, r) == style = "old" \/ (style = "new" /\ r = 0)

RECURSIVE initRows(_, _, _, _)
\* the for loop of initGame(), rows r..2
initRows(st, r, style, seed) ==
    IF r >= 3 THEN st
    ELSE
      LET centerX == Px(WIDTH) \div 2
          centerY == Px(HEIGHT) \div 2
          rowHeight == Px(140)
          totalBlockHeight == rowHeight * (3 - 1)
          startY == centerY - (totalBlockHeight \div 2)
          yPos == startY + r * rowHeight
          isOldStyle == style = "old"
          smallR == (((Px(BASE_RADIUS_PX) * 5) \div 10) * 75) \div 100
          midR == (Px(BASE_RADIUS_PX) * 5) \div 10
          bigR == Px(BASE_RADIUS_PX)
          s1 == createBall(st, centerX - Px(130), yPos, smallR, "#3357FF",
                           leftShouldMove(style, r), seed)
          s2 == createBall(s1, centerX, yPos, midR, "#33FF57", isOldStyle, seed)
          s3 == createBall(s2, centerX + Px(150), yPos, bigR, "#FF5733",
                           isOldStyle, seed)
      IN  initRows(s3, r + 1, style, seed)

\* a restart that forgets to destroy the bodies of the previous registry
initGameLeaking(bs, w, style, seed) ==
    initRows([balls |-> <<>>, world |-> w, draws |-> 0], 0, style, seed)
\* a restart that stops after destroying the bodies
initGameDestroyOnly(bs, w, style, seed) ==
    [balls |-> bs, world |-> w \ {bs[i].body : i \in 1..Len(bs)}, draws |-> 0]
\* initGame(): destroy every registered body, clear the registry, rebuild
initGame(bs, w, style, seed) ==
    LET destroyed == w \ {bs[i].body : i \in 1..Len(bs)}
    IN  initRows([balls |-> <<>>, world |-> destroyed, draws |-> 0], 0, style, seed)

-----------------------------------------------------------------------------
(* loop(): world.step, corner ejection, render *)

tolerance == p2m(Px(1))
\* a nudge no larger than the tolerance
nudgeWithinBand == p2m(Px(1))
nudge == p2m(Px(2))

\* the distance from the ball's edge to each wall, negative past the wall
gapLeft(b)   == (b.pos.x - p2m(b.radius)) - boundsLeft
gapRight(b)  == boundsRight - (b.pos.x + p2m(b.radius))
gapTop(b)    == (b.pos.y - p2m(b.radius)) - boundsTop
gapBottom(b) == boundsBottom - (b.pos.y + p2m(b.radius))

\* a touch test that holds only inside the band around the wall
touchLeftWithinBand(b) == Abs(gapLeft(b)) <= tolerance
touchLeft(b)   == b.pos.x - p2m(b.radius) <= boundsLeft + tolerance
touchRight(b)  == b.pos.x + p2m(b.radius) >= boundsRight - tolerance
touchTop(b)    == b.pos.y - p2m(b.radius) <= boundsTop + tolerance
touchBottom(b) == b.pos.y + p2m(b.radius) >= boundsBottom - tolerance

\* the if / else-if chain of loop(): which branch handles ball b
Corner(b) ==
    IF touchLeft(b) /\ touchTop(b) THEN "topLeft"
    ELSE IF touchRight(b) /\ touchTop(b) THEN "topRight"
    ELSE IF touchLeft(b) /\ touchBottom(b) THEN "bottomLeft"
    ELSE IF touchRight(b) /\ touchBottom(b) THEN "bottomRight"
    ELSE "none"

\* let speed = vel.length(); if (speed < 15) speed = 15;
ejectSpeed(vel) == IF VecLength(vel) < Mps(15) THEN Mps(15) ELSE VecLength(vel)

\* a component of the opposite sign
componentInward(speed) == 0 - (speed \div 10000) * 7071
\* const component = speed * 0.7071
component(speed) ==
    (speed \div 10000) * 7071 + ((speed % 10000) * 7071) \div 10000

\* a correction that also shrinks the ball
cornerEjectShrinking(b) == [b EXCEPT !.radius = b.radius - 1]
\* a correction that stops any ball touching a single wall
cornerEjectAtAnyWall(b) ==
    IF touchLeft(b) \/ touchRight(b) \/ touchTop(b) \/ touchBottom(b)
    THEN [b EXCEPT !.vel = Vec2(0, 0)]
    ELSE b
\* no correction pass at all
cornerEjectSkipped(b) == b
\* the body of balls.forEach in loop()
cornerEject(b) ==
    LET r == p2m(b.radius)
        c == component(ejectSpeed(b.vel))
        k == Corner(b)
    IN  IF k = "topLeft" THEN
            [b EXCEPT !.vel = Vec2(c, c),
                      !.pos = Vec2(boundsLeft + r + nudge, boundsTop + r + nudge)]
        ELSE IF k = "topRight" THEN
            [b EXCEPT !.vel = Vec2(-c, c),
                      !.pos = Vec2(boundsRight - r - nudge, boundsTop + r + nudge)]
        ELSE IF k = "bottomLeft" THEN
            [b EXCEPT !.vel = Vec2(c, -c),
                      !.pos = Vec2(boundsLeft + r + nudge, boundsBottom - r - nudge)]
        ELSE IF k = "bottomRight" THEN
            [b EXCEPT !.vel = Vec2(-c, -c),
                      !.pos = Vec2(boundsRight - r - nudge, boundsBottom - r - nudge)]
        ELSE b

\* world.step(1 / 60): the solver is an external dependency.  Its outcome is
\* sampled: ball i ends the step at a sampled place, given by its gap to a
\* wall on each axis (or a place in the open arena), with a sampled velocity
\* and spin.
SpotX(s, r) == IF s[1] = "lo" THEN boundsLeft + r + s[2]
               ELSE IF s[1] = "hi" THEN boundsRight - r - s[2]
               ELSE boundsRight \div 4
SpotY(s, r) == IF s[1] = "lo" THEN boundsTop + r + s[2]
               ELSE IF s[1] = "hi" THEN boundsBottom - r - s[2]
               ELSE boundsBottom \div 4
worldStep(bs, i, sx, sy, v, w) ==
    [bs EXCEPT ![i].pos = Vec2(SpotX(sx, p2m(bs[i].radius)),
                               SpotY(sy, p2m(bs[i].radius))),
               ![i].vel = v,
               ![i].angVel = w]

Spots(gaps) == {<<"lo", g>> : g \in gaps} \cup {<<"hi", g>> : g \in gaps}
                   \cup {<<"mid", 0>>}
\* gaps between the ball's edge and the wall: far outside the arena, exactly
\* on the tolerance band, just clear of it
FineGaps == {-600, tolerance, tolerance + 1}
CoarseGaps == {tolerance}
FineVels == {Vec2(0, 0), Vec2(Mps(9), Mps(12)), Vec2(Mps(15) + 3, 0),
             Vec2(-Mps(7), Mps(24)), Vec2(0, -Mps(30))}
CoarseVels == {Vec2(0, 0), Vec2(-Mps(7), Mps(24))}
Spins == {0}

\* the two hole sizes by radius tier and the branch on config.graphics
drawBall(b, graphics) ==
    [x |-> m2p(b.pos.x), y |-> m2p(b.pos.y), radius |-> b.radius,
     tier |-> IF b.radius >= Px(55) THEN "big"
              ELSE IF b.radius >= Px(25) THEN "mid" ELSE "small",
     look |-> IF graphics = "new" THEN "cutout" ELSE "outlined"]
render(bs, graphics) == [i \in 1..Len(bs) |-> drawBall(bs[i], graphics)]

\* the 2d context of the simulation canvas as getContext('2d') returns it
DefaultCtx == [gco |-> "source-over", stack |-> <<>>]
\* ctx.save(): push the drawing state
ctxSave(c) == [c EXCEPT !.stack = Append(@, c.gco)]
\* a restore that is never made
ctxRestoreMissing(c) == c
\* ctx.restore(): pop the drawing state (no effect on an empty stack)
ctxRestore(c) ==
    IF c.stack = <<>> THEN c
    ELSE [gco |-> c.stack[Len(c.stack)],
          stack |-> SubSeq(c.stack, 1, Len(c.stack) - 1)]
\* one iteration of the drawing loop: save, base circle, (for 'new')
\* destination-out and the two holes, restore
paintBall(c, graphics) ==
    LET saved == ctxSave(c)
        holes == IF graphics = "new"
                 THEN [saved EXCEPT !.gco = "destination-out"]
                 ELSE saved
    IN  [base |-> saved.gco, ctx |-> ctxRestore(holes)]
RECURSIVE paintBalls(_, _, _, _)
\* the drawing loop over n balls, from context c
paintBalls(n, graphics, c, bases) ==
    IF n = 0 THEN [ctx |-> c, bases |-> bases]
    ELSE LET p == paintBall(c, graphics)
         IN  paintBalls(n - 1, graphics, p.ctx, Append(bases, p.base))

\* requestAnimationFrame: a handle no pending request and no stored id uses
NewHandle(pending, held) ==
    CHOOSE h \in 1..(Cardinality(pending) + 2) :
        /\ h \notin ({r.id : r \in pending} \cup {held})
        /\ \A g \in 1..(h - 1) : g \in ({r.id : r \in pending} \cup {held})
LoopRequests == {r \in rafPending : r.fn = "loop"}

\* the registry as initGame() lays it out (positions do not depend on style)
SpawnBalls == initGame(<<>>, {1, 2, 3, 4}, "new", 1).balls
\* the sampled solver moves one ball of a generation: every other ball is
\* where initGame() put it
OthersAtSpawn(i) ==
    \A j \in 1..Len(balls) : j # i => balls[j].pos = SpawnBalls[j].pos
NoneEjected == [i \in 1..9 |-> "none"]

\* loop(): called once by the script (line 279), then by each display frame
Loop(movers, gaps, vels) ==
    /\ pc = "main" \/ (pc = "run" /\ LoopRequests # {})
    /\ \E i \in {m \in movers : OthersAtSpawn(m)},
          sx \in Spots(gaps), sy \in Spots(gaps), v \in vels, w \in Spins :
         /\ stepped' = worldStep(balls, i, sx, sy, v, w)
         /\ balls' = [j \in 1..Len(balls) |-> cornerEject(stepped'[j])]
         /\ ejected' = [j \in 1..Len(balls) |-> Corner(stepped'[j])]
    /\ canvasScene' = render(balls', config.graphics)
    /\ LET p == paintBalls(Len(balls), config.graphics, ctx, <<>>)
       IN  /\ ctx' = p.ctx
           /\ drawLog' = [clear |-> ctx.gco, bases |-> p.bases]
    /\ LET fired == IF pc = "main" THEN {}
                    ELSE {CHOOSE r \in LoopRequests :
                              \A q \in LoopRequests : r.id <= q.id}
           rest == rafPending \ fired
       IN  rafPending' = rest \cup
               {[id |-> NewHandle(rest, animationFrameId), fn |-> "loop"]}
    /\ fresh' = FALSE
    /\ pc' = IF pc = "main" THEN "bg" ELSE pc
    /\ UNCHANGED <<config, menuHidden, world, wallBodies, bgVars, envVars>>

-----------------------------------------------------------------------------
(* Part 2: dynamic background *)

\* a text is the sequence of its characters
Pemmyz == <<"p", "e", "m", "m", "y", "z">>

\* FONT_STR = "bold 44px Arial Black, Impact, sans-serif": the browser uses the
\* first family it has
Fonts == {"Arial Black", "Impact"}

\* advance width of one character at bold 44px, in quarter pixels (sample
\* metrics of the two families)
Advance(f, ch) ==
    IF f = "Arial Black"
    THEN CASE ch = " " -> 59 [] ch = "m" -> 176 [] ch = "p" -> 117
           [] ch = "e" -> 117 [] ch = "y" -> 108 [] OTHER -> 98
    ELSE CASE ch = " " -> 31 [] ch = "m" -> 150 [] ch = "p" -> 98
           [] ch = "e" -> 97 [] ch = "y" -> 84 [] OTHER -> 76

RECURSIVE measureText(_, _)
\* tileCtx.measureText(text).width, in quarter pixels
measureText(text, f) ==
    IF text = <<>> THEN 0
    ELSE Advance(f, Head(text)) + measureText(Tail(text), f)

\* the padding left out
tileWidthNoPadding(text, f) == Max(50, CeilDiv(measureText(text, f), 4))
\* Math.floor in place of Math.ceil
tileWidthFloored(text, f) == Max(50, FloorDiv(measureText(text, f), 4) + 60)
\* updateDimensions(): TILE_W = Math.max(50, Math.ceil(metrics.width) + 60)
tileWidth(text, f) ==
    LET textWidth == CeilDiv(measureText(text, f), 4)
        padding == 60
    IN  Max(50, textWidth + padding)
\* ROW_OFFSET = Math.floor(TILE_W * 0.5)
rowOffset(tw) == FloorDiv(tw * 5, 10)

NoImage == [kind |-> "none", text |-> <<>>, w |-> 0, h |-> 0]
BlankCanvas == [src |-> NoImage, tw |-> 0, th |-> 0, ro |-> 0,
                rows |-> 0, cols |-> 0, W |-> 0, H |-> 0]

\* const rows = Math.ceil(BG_HEIGHT / TILE_H) + 1
tilingRows(H, th) == CeilDiv(H, th) + 1
\* the column count without its margin
tilingColsNoMargin(W, tw) == CeilDiv(W, tw)
\* const cols = Math.ceil(BG_WIDTH / TILE_W) + 2
tilingCols(W, tw) == CeilDiv(W, tw) + 2
\* const offset = (r % 2 === 0) ? 0 : -ROW_OFFSET
rowShift(r, ro) == IF r % 2 = 0 THEN 0 ELSE -ro

\* drawStaggeredTiling(imgSource): the pass, kept as its parameters; the
\* rectangles it draws are TileRects below
drawStaggeredTiling(imgSource, tw, ro, g) ==
    [src |-> imgSource, tw |-> tw, th |-> g.TH, ro |-> ro,
     rows |-> tilingRows(g.H, g.TH), cols |-> tilingCols(g.W, tw),
     W |-> g.W, H |-> g.H]

\* sctx.drawImage(imgSource, x, y) for every r, c of the two loops: the
\* rectangle each call paints has the source's own size
TileRects(c) ==
    {[x |-> k * c.tw + rowShift(r, c.ro), y |-> r * c.th,
      w |-> c.src.w, h |-> c.src.h] :
        r \in 0..(c.rows - 1), k \in 0..(c.cols - 1)}
PixelCovered(c, x, y) ==
    \E t \in TileRects(c) :
        t.x <= x /\ x < t.x + t.w /\ t.y <= y /\ y < t.y + t.h

\* a cancel that removes nothing
\* a cancel that drops every pending request, whatever its handle
cancelEveryFrame(pending, id) == {}
cancelNothing(pending, id) == pending
\* cancelAnimationFrame(id)
cancelAnimationFrame(pending, id) == {r \in pending : r.id # id}

AnimRequests == {r \in rafPending : r.fn = "animateLoop"}

\* renderTile(): the tile shows the text (the noise is not modelled); passes
\* tells whether the tile was painted once or more often since it was sized
renderTile(t, text) ==
    [t EXCEPT !.text = text, !.kind = "tile",
              !.passes = IF t.passes = "none" THEN "one" ELSE "many"]

\* a static pass that paints the tile twice
renderStaticTwice(t, text) == renderTile(renderTile(t, text), text)
\* renderStaticOnce(): the tile after its renderTile() call (the image load
\* it starts is part of StartBg)
renderStaticOnce(t, text) == renderTile(t, text)

\* tile.toDataURL(): the image the static pass loads
toImage(t) == [kind |-> "image", text |-> t.text, w |-> t.w, h |-> t.h]

\* the most images that may be loading at once
MaxLoads == 2

\* a background restart that does nothing
startBgSkipped(text, anim) == UNCHANGED <<bgVars, rafPending>>
\* startBg(), with the text and the mode its caller has just set
StartBg(text, anim) ==
    LET afterCancel == IF animationFrameId # 0
                       THEN cancelAnimationFrame(rafPending, animationFrameId)
                       ELSE rafPending
        tw == tileWidth(text, font)
        ro == rowOffset(tw)
        sized == [kind |-> "blank", text |-> <<>>, w |-> tw, h |-> geom.TH,
                  passes |-> "none"]
        painted == IF anim THEN renderTile(sized, text)
                   ELSE renderStaticOnce(sized, text)
        handle == NewHandle(afterCancel, 0)
    IN  /\ currentText' = text
        /\ animateNoise' = anim
        /\ TILE_W' = tw
        /\ ROW_OFFSET' = ro
        /\ tile' = painted
        /\ IF anim
           THEN \* cachedStaticImg = null; animateLoop()
                /\ cachedStaticImg' = NoImage
                /\ bgCanvas' = drawStaggeredTiling(painted, tw, ro, geom)
                /\ animationFrameId' = handle
                /\ rafPending' = afterCancel \cup
                                   {[id |-> handle, fn |-> "animateLoop"]}
                /\ loads' = loads
           ELSE \* renderStaticOnce()
                /\ Cardinality(loads \cup {toImage(painted)}) <= MaxLoads
                /\ loads' = loads \cup {toImage(painted)}
                /\ rafPending' = afterCancel
                /\ UNCHANGED <<cachedStaticImg, bgCanvas, animationFrameId>>
        /\ UNCHANGED frameRegens

\* the script's startBg() call (line 428)
BootBg ==
    /\ pc = "bg"
    /\ StartBg(currentText, animateNoise)
    /\ pc' = "run"
    /\ UNCHANGED <<simVars, envVars>>

\* img.onload of renderStaticOnce()
ImgLoad ==
    /\ pc = "run"
    /\ \E img \in loads :
         /\ loads' = loads \ {img}
         /\ cachedStaticImg' = img
         /\ bgCanvas' = drawStaggeredTiling(img, TILE_W, ROW_OFFSET, geom)
    /\ UNCHANGED <<pc, simVars, rafPending, envVars, currentText, TILE_W,
                   ROW_OFFSET, tile, animateNoise, animationFrameId, frameRegens>>

RECURSIVE animateCallbacks(_, _)
\* n animateLoop callbacks of one display frame, run while animateNoise holds:
\* each requests the next frame and stores its handle
animateCallbacks(n, st) ==
    IF n = 0 THEN st
    ELSE LET h == NewHandle(st.pending, st.held)
         IN  animateCallbacks(n - 1,
                 [pending |-> st.pending \cup {[id |-> h, fn |-> "animateLoop"]},
                  held |-> h])

\* one display frame, as the background sees it: every pending animateLoop
\* request fires
BgFrame ==
    /\ pc = "run"
    /\ AnimRequests # {}
    /\ IF animateNoise
       THEN LET n == Cardinality(AnimRequests)
                st == animateCallbacks(n, [pending |-> rafPending \ AnimRequests,
                                           held |-> animationFrameId])
            IN  /\ tile' = renderTile(tile, currentText)
                /\ bgCanvas' = drawStaggeredTiling(tile', TILE_W, ROW_OFFSET, geom)
                /\ rafPending' = st.pending
                /\ animationFrameId' = st.held
                /\ frameRegens' = n
       ELSE \* if (!animateNoise) return;
            /\ rafPending' = rafPending \ AnimRequests
            /\ frameRegens' = 0
            /\ UNCHANGED <<tile, bgCanvas, animationFrameId>>
    /\ UNCHANGED <<pc, simVars, envVars, currentText, TILE_W, ROW_OFFSET,
                   animateNoise, cachedStaticImg, loads>>

\* keydown "a" outside an input field
KeyA ==
    /\ pc = "run"
    /\ StartBg(currentText, ~animateNoise)
    /\ UNCHANGED <<pc, simVars, envVars>>

\* window.updateBgText(newText), called directly
UpdateBgText(texts) ==
    /\ pc = "run"
    /\ \E t \in texts : StartBg(t, animateNoise)
    /\ UNCHANGED <<pc, simVars, envVars>>

-----------------------------------------------------------------------------
(* UI and interactions *)

\* btnApply click: updateConfigFromUI(); initGame(); menu.classList.add('hidden')
\* style is the checked radio ("unchecked" if none), graphics the select's
\* value, text the input field's value
Apply(styles, graphicsValues, texts, seeds) ==
    /\ pc = "run"
    /\ \E style \in styles, graphics \in graphicsValues, text \in texts,
          seed \in seeds :
         /\ config' = [style |-> IF style = "unchecked" THEN config.style
                                 ELSE style,
                       graphics |-> graphics]
         /\ StartBg(IF text = <<>> THEN <<" ">> ELSE text, animateNoise)
         /\ LET g == initGame(balls, world, config'.style, seed)
            IN  balls' = g.balls /\ world' = g.world
    /\ stepped' = balls'
    /\ menuHidden' = TRUE
    /\ fresh' = TRUE
    /\ ejected' = NoneEjected
    /\ UNCHANGED <<pc, wallBodies, canvasScene, ctx, drawLog, envVars>>

\* a canvas click that restarts whether or not the menu is open
clickRestartsAlways(hidden) == TRUE
\* if (menu.classList.contains('hidden')) ...
clickRestarts(hidden) == hidden

\* canvas click: if (menu.classList.contains('hidden')) initGame()
CanvasClick(seeds) ==
    /\ pc = "run"
    /\ IF clickRestarts(menuHidden)
       THEN /\ \E seed \in seeds :
                 LET g == initGame(balls, world, config.style, seed)
                 IN  balls' = g.balls /\ world' = g.world
            /\ stepped' = balls'
            /\ fresh' = TRUE
            /\ ejected' = NoneEjected
       ELSE UNCHANGED <<balls, world, stepped, fresh, ejected>>
    /\ UNCHANGED <<pc, config, menuHidden, wallBodies, canvasScene, ctx, drawLog,
                   rafPending, bgVars, envVars>>

\* btnTrigger click, or key "o" outside the text input
ToggleMenu ==
    /\ pc = "run"
    /\ menuHidden' = ~menuHidden
    /\ UNCHANGED <<pc, config, balls, world, wallBodies, canvasScene, ctx,
                   drawLog, stepped, ejected, fresh, rafPending, bgVars, envVars>>

\* btnClose click
CloseMenu ==
    /\ pc = "run"
    /\ menuHidden' = TRUE
    /\ UNCHANGED <<pc, config, balls, world, wallBodies, canvasScene, ctx,
                   drawLog, stepped, ejected, fresh, rafPending, bgVars, envVars>>

-----------------------------------------------------------------------------
(* Initial state: the script has run up to initGame() (line 278) *)

ProgramGeom == [W |-> 1920, H |-> 1080, TH |-> 80]

InitWith(seeds, fonts) ==
    /\ pc = "main"
    /\ config = [style |-> "new", graphics |-> "new"]
    /\ menuHidden = TRUE
    /\ wallBodies = WallIds
    /\ \E seed \in seeds :
         LET g == initGame(<<>>, {WallIds[i] : i \in 1..Len(WallIds)},
                           "new", seed)
         IN  balls = g.balls /\ world = g.world
    /\ rafPending = {}
    /\ canvasScene = <<>>
    /\ ctx = DefaultCtx
    /\ drawLog = [clear |-> "none", bases |-> <<>>]
    /\ stepped = balls
    /\ ejected = NoneEjected
    /\ fresh = TRUE
    /\ currentText = Pemmyz
    /\ TILE_W = 220
    /\ ROW_OFFSET = 0
    /\ tile = [kind |-> "blank", text |-> <<>>, w |-> 300, h |-> 150,
               passes |-> "none"]
    /\ animateNoise = FALSE
    /\ animationFrameId = 0
    /\ cachedStaticImg = NoImage
    /\ loads = {}
    /\ bgCanvas = BlankCanvas
    /\ frameRegens = 0
    /\ font \in fonts
    /\ geom = ProgramGeom

-----------------------------------------------------------------------------
(* The physics loop alone: frames with finely sampled solver outcomes *)

\* one ball of each size, one in each row
SizeProbes == {1, 5, 9}

InitCorner == InitWith({1}, {"Arial Black"})
NextCorner == Loop(SizeProbes, FineGaps, FineVels) \/ BootBg
SpecCorner == InitCorner /\ [][NextCorner]_vars


\* C1: every ball the last loop() found within tolerance of two adjacent
\* edges has, after the correction, a velocity of magnitude >= 15 m/s
\* (compared as squares: vx^2 + vy^2 >= 15^2).
C1_EjectedAtFloorSpeed ==
    \A i \in 1..Len(balls) :
        ejected[i] # "none" => BigLeq(Sq(Mps(15)), SqNorm(balls[i].vel))

\* a ball was ejected from a corner by the last loop()
C1_Reached == \E i \in 1..Len(balls) : ejected[i] # "none" /\ pc = "run"

\* C2: after the correction an ejected ball is strictly outside the tolerance
\* band of both edges of its corner, and the four touch tests evaluated on the
\* corrected position find no corner.
C2_ClearOfBand ==
    \A i \in 1..Len(balls) :
        LET b == balls[i]
            r == p2m(b.radius)
            clearL == b.pos.x - r > boundsLeft + tolerance
            clearR == b.pos.x + r < boundsRight - tolerance
            clearT == b.pos.y - r > boundsTop + tolerance
            clearB == b.pos.y + r < boundsBottom - tolerance
        IN  /\ ejected[i] = "topLeft" => clearL /\ clearT
            /\ ejected[i] = "topRight" => clearR /\ clearT
            /\ ejected[i] = "bottomLeft" => clearL /\ clearB
            /\ ejected[i] = "bottomRight" => clearR /\ clearB
            /\ ejected[i] # "none" => Corner(b) = "none"

\* a ball was ejected from the bottom-right corner (the last branch)
C2_Reached == \E i \in 1..Len(balls) : ejected[i] = "bottomRight"

\* C17: a display frame runs loop() once (at most one loop request is ever
\* pending); after a frame every ball the step left in a corner has been
\* corrected, and the canvas shows the corrected bodies: no drawn ball is in
\* a corner condition.
C17_StepCorrectRender ==
    /\ Cardinality(LoopRequests) <= 1
    /\ ~fresh =>
          /\ Len(canvasScene) = Len(balls)
          /\ \A i \in 1..Len(balls) :
                 /\ Corner(stepped[i]) # "none" => balls[i].pos # stepped[i].pos
                 /\ Corner(balls[i]) = "none"
                 /\ canvasScene[i].x = m2p(balls[i].pos.x)
                 /\ canvasScene[i].y = m2p(balls[i].pos.y)

\* the frame drew a ball at the place the top-left correction put it
C17_Reached ==
    \E i \in 1..Len(balls) :
        /\ ejected[i] = "topLeft"
        /\ Len(canvasScene) = Len(balls)
        /\ canvasScene[i].x = m2p(boundsLeft + p2m(balls[i].radius) + nudge)
        /\ canvasScene[i].y = m2p(boundsTop + p2m(balls[i].radius) + nudge)

\* C18: the velocity written by the correction has components of equal
\* magnitude c > 0 pointing into the arena: top-left (+c, +c), top-right
\* (-c, +c), bottom-left (+c, -c), bottom-right (-c, -c).
C18_AwayFromCorner ==
    \A i \in 1..Len(balls) :
        LET v == balls[i].vel
        IN  /\ ejected[i] = "topLeft" => (v.x > 0 /\ v.y = v.x)
            /\ ejected[i] = "topRight" => (v.y > 0 /\ v.x = 0 - v.y)
            /\ ejected[i] = "bottomLeft" => (v.x > 0 /\ v.y = 0 - v.x)
            /\ ejected[i] = "bottomRight" => (v.x < 0 /\ v.y = v.x)

\* a ball faster than the floor speed was ejected from the bottom-left corner
C18_Reached ==
    \E i \in 1..Len(balls) :
        ejected[i] = "bottomLeft" /\ balls[i].vel.x > component(Mps(15))

\* C19: a ball the step left touching at most one edge keeps the position
\* and velocity the step gave it, and every ball the pass changed touched a
\* vertical and a horizontal edge.
C19_OnlyCornerBallsChange ==
    ~fresh =>
        \A i \in 1..Len(balls) :
            LET b == stepped[i]
                n == (IF touchLeft(b) THEN 1 ELSE 0) + (IF touchRight(b) THEN 1 ELSE 0)
                       + (IF touchTop(b) THEN 1 ELSE 0) + (IF touchBottom(b) THEN 1 ELSE 0)
            IN  /\ n <= 1 => (balls[i].pos = b.pos /\ balls[i].vel = b.vel)
                /\ balls[i] # b =>
                       /\ touchLeft(b) \/ touchRight(b)
                       /\ touchTop(b) \/ touchBottom(b)

\* a moving ball touching the left wall only went through the pass unchanged
C19_Reached ==
    /\ ~fresh
    /\ \E i \in 1..Len(balls) :
          /\ touchLeft(stepped[i])
          /\ ~touchTop(stepped[i])
          /\ ~touchBottom(stepped[i])
          /\ stepped[i].vel # Vec2(0, 0)
          /\ balls[i] = stepped[i]

\* C20 as stated: a ball whose edge is farther than tolerance from a wall, on
\* either side of it (inside the arena or past the wall), is not corrected
\* for the corners of that wall, and when that rules out all four corners
\* the ball is left as the step produced it.
C20_SkippedOutsideBand ==
    ~fresh =>
        \A i \in 1..Len(balls) :
            LET b == stepped[i]
                offL == Abs(gapLeft(b)) > tolerance
                offR == Abs(gapRight(b)) > tolerance
                offT == Abs(gapTop(b)) > tolerance
                offB == Abs(gapBottom(b)) > tolerance
            IN  /\ (offL \/ offT) => ejected[i] # "topLeft"
                /\ (offR \/ offT) => ejected[i] # "topRight"
                /\ (offL \/ offB) => ejected[i] # "bottomLeft"
                /\ (offR \/ offB) => ejected[i] # "bottomRight"
                /\ ((offL \/ offT) /\ (offR \/ offT) /\ (offL \/ offB)
                        /\ (offR \/ offB)) => balls[i] = b

\* C20 amended: a ball whose edge is more than tolerance short of a wall
\* (inside the arena) is not corrected for the corners of that wall, and when
\* that rules out all four corners it is left as the step produced it; a ball
\* at or past a wall, however far outside the arena, touches that wall, and if
\* it also touches an adjacent wall it is corrected in this frame: it is put
\* nudge inside that corner.
C20_OneSidedTest ==
    ~fresh =>
        \A i \in 1..Len(balls) :
            LET b == stepped[i]
                r == p2m(b.radius)
                farL == gapLeft(b) > tolerance
                farR == gapRight(b) > tolerance
                farT == gapTop(b) > tolerance
                farB == gapBottom(b) > tolerance
            IN  /\ (farL \/ farT) => ejected[i] # "topLeft"
                /\ (farR \/ farT) => ejected[i] # "topRight"
                /\ (farL \/ farB) => ejected[i] # "bottomLeft"
                /\ (farR \/ farB) => ejected[i] # "bottomRight"
                /\ ((farL \/ farT) /\ (farR \/ farT) /\ (farL \/ farB)
                        /\ (farR \/ farB)) => balls[i] = b
                /\ (~farL /\ ~farT) =>
                       /\ ejected[i] = "topLeft"
                       /\ balls[i].pos = Vec2(boundsLeft + r + nudge,
                                              boundsTop + r + nudge)
                /\ (~farR /\ ~farB) =>
                       /\ ejected[i] # "none"
                       /\ balls[i].pos # b.pos
                       /\ gapLeft(balls[i]) >= nudge
                       /\ gapRight(balls[i]) >= nudge
                       /\ gapTop(balls[i]) >= nudge
                       /\ gapBottom(balls[i]) >= nudge

\* a ball far past the left wall and on the top band was put back into the
\* top-left corner
C20_Reached ==
    \E i \in 1..Len(balls) :
        /\ gapLeft(stepped[i]) < 0 - tolerance
        /\ ejected[i] = "topLeft"
        /\ gapLeft(balls[i]) = nudge
        /\ gapTop(balls[i]) = nudge

-----------------------------------------------------------------------------
(* The simulation with its menu: restarts, Apply, frames *)

GameTexts == {Pemmyz}
StyleChoices == {"new", "old", "unchecked"}
GraphicsChoices == {"new", "old"}

InitGame == InitWith(Seeds, {"Arial Black"})
NextGame ==
    \/ Loop({1}, CoarseGaps, CoarseVels)
    \/ BootBg
    \/ ImgLoad
    \/ Apply(StyleChoices, GraphicsChoices, GameTexts, Seeds)
    \/ CanvasClick(Seeds)
    \/ ToggleMenu
    \/ CloseMenu
SpecGame == InitGame /\ [][NextGame]_vars

Moving == {i \in 1..Len(balls) : balls[i].vel # Vec2(0, 0)}

\* C3 as stated: after initGame with style 'new' exactly 3 balls have a
\* nonzero linear velocity, the others zero linear and angular velocity.
C3_ThreeMoving ==
    (fresh /\ config.style = "new") =>
        /\ Cardinality(Moving) = 3
        /\ \A i \in 1..Len(balls) :
               i \notin Moving => balls[i].vel = Vec2(0, 0) /\ balls[i].angVel = 0

\* C3 amended: after initGame with style 'new' exactly 1 of the 9 balls has a
\* nonzero linear velocity; the other 8 have zero linear and angular velocity.
C3_OneMoving ==
    (fresh /\ config.style = "new") =>
        /\ Len(balls) = 9
        /\ Cardinality(Moving) = 1
        /\ \A i \in 1..Len(balls) :
               i \notin Moving => balls[i].vel = Vec2(0, 0) /\ balls[i].angVel = 0

\* a restart with style 'new' has just run
C3_Reached == pc = "run" /\ fresh /\ config.style = "new"

\* C4: after initGame with style 'new' the small ball of the top row is the
\* only ball created with shouldMove = true; the other 8 are created stationary.
C4_OnlyTopSmall ==
    (fresh /\ config.style = "new") =>
        /\ \A i \in 1..Len(balls) :
               balls[i].shouldMove <=>
                   (balls[i].radius = 45 /\ balls[i].pos.y = p2m(Px(400)))
        /\ Cardinality({i \in 1..Len(balls) : ~balls[i].shouldMove}) = 8

\* Apply has just restarted the game with style 'new'
C4_Reached ==
    pc = "run" /\ fresh /\ config.style = "new" /\ config.graphics = "old"

\* C5: after initGame with style 'old' the registry holds 9 balls and each has
\* a linear velocity of magnitude 25 m/s (vx^2 + vy^2 = 25^2).
C5_AllAtSpawnSpeed ==
    (fresh /\ config.style = "old") =>
        /\ Len(balls) = 9
        /\ \A i \in 1..Len(balls) : SqNorm(balls[i].vel) = Sq(Mps(25))

\* a restart with style 'old' has just run
C5_Reached == pc = "run" /\ fresh /\ config.style = "old"

\* C23: after every loop() the context is back in its default state
\* (compositing mode source-over, empty save stack), and in every loop()
\* clearRect and each ball's base circle were drawn with source-over, whatever
\* the graphics style of this and of earlier frames.
C23_CompositingStaysLocal ==
    /\ ctx.gco = "source-over"
    /\ ctx.stack = <<>>
    /\ drawLog.clear \in {"none", "source-over"}
    /\ \A k \in 1..Len(drawLog.bases) : drawLog.bases[k] = "source-over"

\* a frame drew all nine balls with cut-out holes after an Apply and earlier
\* frames
C23_Reached ==
    /\ pc = "run"
    /\ ~fresh
    /\ config.style = "old"
    /\ Len(drawLog.bases) = 9
    /\ drawLog.clear = "source-over"
    /\ \A i \in 1..Len(canvasScene) : canvasScene[i].look = "cutout"

\* C11: a canvas click leaves the configuration, the four wall bodies (and the
\* bounds, which nothing reassigns) unchanged; with the menu hidden it rebuilds
\* the registry (9 fresh balls at their spawn places, moving as the current
\* style says); with the menu open it changes neither registry nor world.
C11_ClickRestartsWhenHidden ==
    [][CanvasClick(Seeds) =>
          /\ wallBodies' = wallBodies
          /\ \A k \in 1..Len(wallBodies) : wallBodies[k] \in world'
          /\ config' = config
          /\ IF menuHidden
             THEN /\ Len(balls') = 9
                  /\ Cardinality(world') = 13
                  /\ \A i \in 1..9 :
                         /\ balls'[i].pos = SpawnBalls[i].pos
                         /\ balls'[i].radius = SpawnBalls[i].radius
                         /\ balls'[i].angVel = 0
                         /\ balls'[i].body \in world'
                  /\ {i \in 1..9 : balls'[i].vel # Vec2(0, 0)} =
                         (IF config.style = "old" THEN 1..9 ELSE {1})
             ELSE balls' = balls /\ world' = world]_vars

\* the menu is hidden and a restart has put a ball that a frame had moved
\* back to its spawn place
C11_Reached ==
    /\ pc = "run"
    /\ menuHidden
    /\ fresh
    /\ canvasScene # <<>>
    /\ canvasScene[1].x # m2p(balls[1].pos.x)

\* C13: the registry holds 9 balls with 9 distinct bodies, and the dynamic
\* bodies alive in the world are exactly the bodies of the registry.
C13_WorldHoldsRegistry ==
    LET bodies == {balls[i].body : i \in 1..Len(balls)}
        walls == {wallBodies[k] : k \in 1..Len(wallBodies)}
    IN  /\ Len(balls) = 9
        /\ Cardinality(bodies) = 9
        /\ bodies \cap walls = {}
        /\ world \ walls = bodies

\* a restart with style 'old' has replaced a registry that frames had used
C13_Reached ==
    /\ pc = "run"
    /\ fresh
    /\ canvasScene # <<>>
    /\ config.style = "old"
    /\ Cardinality(world) = 13

\* C14: whenever loop() can run (the script's own call, or a pending frame
\* request) the registry is complete: 9 balls, each body alive in the world.
C14_LoopSeesWholeRegistry ==
    (pc = "main" \/ (pc = "run" /\ LoopRequests # {})) =>
        /\ Len(balls) = 9
        /\ \A i \in 1..Len(balls) : balls[i].body \in world

\* a frame is due right after an Apply that followed earlier frames
C14_Reached ==
    /\ pc = "run"
    /\ fresh
    /\ LoopRequests # {}
    /\ canvasScene # <<>>
    /\ config.graphics = "old"

\* C16: ball i has the pixel radius of its column (22.5, 30, 60) and density
\* 1.0, before and after the solver step, and the radius the corner test
\* uses, p2m(radius), is the radius of the ball's fixture.
C16_RadiusAndDensityFixed ==
    \A i \in 1..Len(balls) :
        LET col == ((i - 1) % 3) + 1
        IN  /\ balls[i].radius = <<45, 60, 120>>[col]
            /\ stepped[i].radius = <<45, 60, 120>>[col]
            /\ balls[i].density = 1
            /\ stepped[i].density = 1
            /\ balls[i].fixtureRadius = p2m(balls[i].radius)
            /\ stepped[i].fixtureRadius = balls[i].fixtureRadius

\* a ball was ejected from a corner in a game restarted with style 'old'
C16_Reached ==
    /\ pc = "run"
    /\ config.style = "old"
    /\ \E i \in 1..Len(balls) : ejected[i] # "none"

-----------------------------------------------------------------------------
(* The menu offering values outside the documented ones: a radio button or  *)
(* a select option whose value is neither 'new' nor 'old'                   *)

RangeStyles == {"new", "old", "classic"}
RangeGraphics == {"new", "old", "retro"}

InitRange == InitWith({1}, {"Arial Black"})
NextRange ==
    \/ Loop({1}, CoarseGaps, CoarseVels)
    \/ BootBg
    \/ ImgLoad
    \/ Apply(RangeStyles, RangeGraphics, GameTexts, {1})
    \/ CanvasClick({1})
    \/ ToggleMenu
    \/ CloseMenu
SpecRange == InitRange /\ [][NextRange]_vars

\* C15: with a style other than 'new' and 'old' the balls that start moving
\* are those of 'new' (the top-row small ball) or those of 'old' (all nine);
\* with a graphics style other than 'new' and 'old' every ball is drawn by
\* the 'new' branch or by the 'old' branch.
C15_FallsBackToVariant ==
    /\ (fresh /\ config.style \notin {"new", "old"}) =>
           (Moving = {1} \/ Moving = 1..9)
    /\ (~fresh /\ config.graphics \notin {"new", "old"}) =>
           \/ \A i \in 1..Len(canvasScene) : canvasScene[i].look = "cutout"
           \/ \A i \in 1..Len(canvasScene) : canvasScene[i].look = "outlined"

-----------------------------------------------------------------------------
(* The background: text changes, noise toggles, display frames, image loads *)

\* the longest text typed into the input field or passed to updateBgText
MaxTextLen == 1

RECURSIVE TextsOfLen(_, _)
TextsOfLen(glyphs, n) ==
    IF n = 0 THEN {<<>>}
    ELSE {Append(t, g) : t \in TextsOfLen(glyphs, n - 1), g \in glyphs}
TextsUpTo(glyphs, n) == UNION {TextsOfLen(glyphs, k) : k \in 0..n}

BgTexts == TextsUpTo({"m"}, MaxTextLen)

InitBg == InitWith({1}, Fonts)
NextBg ==
    \/ Loop({1}, {}, {Vec2(0, Mps(25))})
    \/ BootBg
    \/ ImgLoad
    \/ BgFrame
    \/ KeyA
    \/ UpdateBgText(BgTexts)
    \/ Apply({"new"}, {"new"}, BgTexts, {1})
SpecBg == InitBg /\ [][NextBg]_vars

\* C6 as stated: with an empty background text the tile width is the floor 50,
\* after updateBgText("") and after Apply with an empty input field.
C6_EmptyTextGivesFloor ==
    [][(UpdateBgText({<<>>}) \/ Apply({"new"}, {"new"}, {<<>>}, {1}))
           => TILE_W' = 50]_vars

\* C6 amended: after updateBgText("") the text is empty and the tile width is
\* max(50, 0 + 60) = 60, the padding; after Apply with an empty input field
\* the text is a single space and the tile width is ceil(width of " ") + 60,
\* which is at least 60.  The floor 50 is the result in neither case.
C6_EmptyTextGivesPadding ==
    [][/\ UpdateBgText({<<>>}) => (currentText' = <<>> /\ TILE_W' = 60)
       /\ Apply({"new"}, {"new"}, {<<>>}, {1}) =>
             /\ currentText' = <<" ">>
             /\ TILE_W' >= 60
             /\ 4 * (TILE_W' - 60) >= Advance(font, " ")
             /\ 4 * (TILE_W' - 60) < Advance(font, " ") + 4]_vars

\* the text is empty and the tile has been sized for it
C6_Reached == pc = "run" /\ currentText = <<>> /\ tile.w = TILE_W /\ TILE_W = 60

\* C7: once startBg() has run, for the current text of measured width w the
\* tile width is max(50, ceil(w) + 60) (w in quarter pixels), hence at least
\* w + 60; the tile is 80 high; the row offset is floor(TILE_W / 2).
C7_TileWidthLaw ==
    pc = "run" =>
        LET w == measureText(currentText, font)
        IN  /\ TILE_W >= 50
            /\ 4 * TILE_W >= w + 4 * 60
            /\ TILE_W = 50 \/ 4 * (TILE_W - 60) < w + 4
            /\ tile.w = TILE_W
            /\ tile.h = 80
            /\ 2 * ROW_OFFSET <= TILE_W
            /\ TILE_W < 2 * ROW_OFFSET + 2

\* a text whose width is rounded up, giving an odd tile width
C7_Reached ==
    /\ pc = "run"
    /\ measureText(currentText, font) % 4 # 0
    /\ TILE_W % 2 = 1
    /\ currentText # <<>>

\* C9: at most one animateLoop request is pending; none is pending while
\* animateNoise is false; a display frame regenerates the tile at most once.
C9_OneAnimationLoop ==
    /\ Cardinality(AnimRequests) <= 1
    /\ ~animateNoise => AnimRequests = {}
    /\ frameRegens <= 1

\* noise was switched on, a frame regenerated the tile, noise was switched off
C9_Reached ==
    /\ pc = "run"
    /\ ~animateNoise
    /\ animationFrameId # 0
    /\ frameRegens = 1

\* C21: in static mode no display frame (neither the simulation's nor an
\* animateLoop callback) changes the tile or the background canvas; after
\* every startBg() in static mode the tile has been painted exactly once
\* since it was sized; the tile changes only when startBg() starts a static
\* pass (its image is then loading), and the background canvas changes only
\* when the image of such a pass has loaded.
C21_StaticModeIdle ==
    [][/\ (~animateNoise /\ (Loop({1}, {}, {Vec2(0, Mps(25))}) \/ BgFrame)) =>
              (tile' = tile /\ bgCanvas' = bgCanvas)
       /\ (~animateNoise' /\ pc' = "run") => tile'.passes = "one"
       /\ (~animateNoise /\ ~animateNoise' /\ tile' # tile) =>
              toImage(tile') \in loads'
       /\ (~animateNoise /\ ~animateNoise' /\ bgCanvas' # bgCanvas) =>
              /\ bgCanvas'.src \in loads
              /\ bgCanvas'.src \notin loads'
              /\ tile' = tile]_vars

\* static again after an animated spell: the image has loaded and is on the
\* background, the tile was painted once, and simulation frames keep coming
C21_Reached ==
    /\ pc = "run"
    /\ ~animateNoise
    /\ animationFrameId # 0
    /\ tile.passes = "one"
    /\ loads = {}
    /\ cachedStaticImg # NoImage
    /\ bgCanvas.src = cachedStaticImg
    /\ cachedStaticImg.text = currentText
    /\ ~fresh

\* C10: whatever is drawn on the background canvas, or cached as the static
\* image, comes from a pass of the current mode and the current text.
C10_NoStalePass ==
    [][/\ bgCanvas' # bgCanvas =>
             /\ (bgCanvas'.src.kind = "tile") <=> animateNoise'
             /\ bgCanvas'.src.text = currentText'
       /\ (cachedStaticImg' # cachedStaticImg /\ cachedStaticImg' # NoImage) =>
             /\ ~animateNoise'
             /\ cachedStaticImg'.text = currentText']_vars

-----------------------------------------------------------------------------
(* drawStaggeredTiling on its own, for any canvas and tile size *)

\* the largest canvas width, canvas height, tile width and tile height
MaxDim == 4

InitTile ==
    /\ pc = "pass"
    /\ config = [style |-> "new", graphics |-> "new"]
    /\ menuHidden = TRUE
    /\ wallBodies = WallIds
    /\ balls = SpawnBalls
    /\ world = 1..13
    /\ rafPending = {}
    /\ canvasScene = <<>>
    /\ ctx = DefaultCtx
    /\ drawLog = [clear |-> "none", bases |-> <<>>]
    /\ stepped = SpawnBalls
    /\ ejected = NoneEjected
    /\ fresh = TRUE
    /\ currentText = Pemmyz
    /\ geom \in [W : 1..MaxDim, H : 1..MaxDim, TH : 1..MaxDim]
    /\ TILE_W \in 1..MaxDim
    /\ ROW_OFFSET = rowOffset(TILE_W)
    /\ tile = [kind |-> "tile", text |-> Pemmyz, w |-> TILE_W, h |-> geom.TH,
               passes |-> "one"]
    /\ animateNoise = TRUE
    /\ animationFrameId = 0
    /\ cachedStaticImg = NoImage
    /\ loads = {}
    /\ bgCanvas = BlankCanvas
    /\ frameRegens = 0
    /\ font = "Arial Black"

\* one call of drawStaggeredTiling(tile)
TilingPass ==
    /\ pc = "pass"
    /\ bgCanvas' = drawStaggeredTiling(tile, TILE_W, ROW_OFFSET, geom)
    /\ pc' = "done"
    /\ UNCHANGED <<simVars, rafPending, envVars, currentText, TILE_W, ROW_OFFSET,
                   tile, animateNoise, animationFrameId, cachedStaticImg, loads,
                   frameRegens>>

NextTile == TilingPass
SpecTile == InitTile /\ [][NextTile]_vars

\* C8: after a tiling pass every pixel (x, y) of the canvas, 0 <= x < W and
\* 0 <= y < H, lies inside at least one drawn tile rectangle.
C8_CanvasCovered ==
    pc = "done" =>
        \A x \in 0..(geom.W - 1), y \in 0..(geom.H - 1) :
            PixelCovered(bgCanvas, x, y)

\* a pass with a shifted odd row over a canvas that is no multiple of the tile
C8_Reached ==
    /\ pc = "done"
    /\ bgCanvas.ro > 0
    /\ bgCanvas.rows >= 3
    /\ geom.W % bgCanvas.tw # 0
    /\ geom.W > bgCanvas.tw

-----------------------------------------------------------------------------
(* The whole program *)

\* the values typed into the text field of the menu: untouched, or cleared
MenuTexts == {Pemmyz, <<>>}

Init == InitWith({1}, {"Arial Black"})
Next ==
    \/ Loop({1}, {}, {Vec2(0, Mps(25))})
    \/ BootBg
    \/ ImgLoad
    \/ BgFrame
    \/ KeyA
    \/ Apply(StyleChoices, GraphicsChoices, MenuTexts, {1})
    \/ CanvasClick({1})
    \/ ToggleMenu
    \/ CloseMenu
Spec == Init /\ [][Next]_vars

\* C12: style, graphics and the background text change only in an Apply
\* step; every Apply step rebuilds the registry (9 balls at their spawn
\* places, alone with the walls in the world), restarts the background for
\* the applied text (tile sized and painted, then a static image load or an
\* animated pass with a frame request) and leaves the menu hidden.
C12_ConfigChangesOnlyOnApply ==
    [][/\ (config' # config \/ currentText' # currentText) =>
              Apply(StyleChoices, GraphicsChoices, MenuTexts, {1})
       /\ Apply(StyleChoices, GraphicsChoices, MenuTexts, {1}) =>
              /\ menuHidden'
              /\ fresh'
              /\ Len(balls') = 9
              /\ \A i \in 1..9 : balls'[i].pos = SpawnBalls[i].pos
              /\ world' = {wallBodies[k] : k \in 1..Len(wallBodies)}
                              \cup {balls'[i].body : i \in 1..9}
              /\ tile'.kind = "tile"
              /\ tile'.text = currentText'
              /\ tile'.w = TILE_W'
              /\ 4 * TILE_W' >= measureText(currentText', font) + 4 * 60
              /\ IF animateNoise'
                 THEN /\ bgCanvas'.src = tile'
                      /\ cachedStaticImg' = NoImage
                      /\ \E r \in rafPending' :
                             r.fn = "animateLoop" /\ r.id = animationFrameId'
                 ELSE toImage(tile') \in loads']_vars

\* Apply has changed the style, the graphics style and the background text
C12_Reached ==
    /\ pc = "run"
    /\ config = [style |-> "old", graphics |-> "old"]
    /\ currentText = <<" ">>
    /\ tile.text = <<" ">>
    /\ menuHidden
    /\ fresh

\* C22: once the script has called loop(), exactly one animation-frame
\* request for loop is pending in every state, menu open or not, whatever
\* restarts, Apply, menu clicks, noise toggles and image loads have happened,
\* and its handle is never the one startBg() would cancel.
C22_OneSimulationLoop ==
    pc # "main" =>
        /\ Cardinality(LoopRequests) = 1
        /\ \A r \in LoopRequests : r.id # animationFrameId

\* the menu is open and the background is animated, after an Apply and frames:
\* the loop's request is pending next to the background's
C22_Reached ==
    /\ pc = "run"
    /\ ~menuHidden
    /\ animateNoise
    /\ ~fresh
    /\ config.style = "old"
    /\ Cardinality(LoopRequests) = 1
    /\ Cardinality(rafPending) = 2

=============================================================================
